---------------------------- MODULE Spec2Model ----------------------------
(***************************************************************************)
(* Model of the iris prediction service (src/mongoDB/app.py) and of the    *)
(* bootstrapper that trains the first classifier (src/mongoDB/model.py).   *)
(*                                                                         *)
(* Floating point values are written as integer tenths (5.1 is 51).        *)
(* A fitted DecisionTreeClassifier is represented by the training matrix   *)
(* and target vector it was fit on: fit() discards the previous tree and   *)
(* grows a new one from X and y alone.                                     *)
(***************************************************************************)
EXTENDS Integers, Sequences, FiniteSets, TLC

(***************************************************************************)
(* Bounds of the model.                                                    *)
(***************************************************************************)
\* POST /predict requests received in a run
MaxRequests == 10
\* malformed submissions (a non-numeric or a missing field) in a run
MaxRejected == 1
\* documents in the collection whose row is not a row of the reference dataset
MaxNovel == 2
\* environment failures (database, file system) in a run
MaxFailures == 1

\* request handler threads of the development server
Threads == {"t1", "t2"}
\* the one thread that serves requests when they are handled one at a time
T1 == "t1"

(***************************************************************************)
(* Program constants.                                                      *)
(***************************************************************************)
\* app.py:11   len(all_records) % 5
RefitEvery == 5

\* dataset['feature_names'] (app.py:23, model.py:8)
feature_names ==
    << "sepal length (cm)", "sepal width (cm)",
       "petal length (cm)", "petal width (cm)" >>

\* dataset['target_names'] (model.py:10)
target_names == << "setosa", "versicolor", "virginica" >>

\* load_iris(): one reference row per class stands for the 150 rows
\* (rows 0, 50 and 100 of the dataset), target as the class index.
dataset_data == << <<51, 35, 14, 2>>, <<70, 32, 47, 14>>, <<63, 33, 60, 25>> >>
dataset_target == << 0, 1, 2 >>

\* A model file is the sequence of objects pickled into it.  A file that was
\* opened for writing and not yet written holds none: pickle.load fails on it.
Partial == << >>
None == "none"

(***************************************************************************)
(* Helpers.                                                                *)
(***************************************************************************)
Min(a, b) == IF a <= b THEN a ELSE b

Range(s) == { s[i] : i \in DOMAIN s }

\* dict(zip(keys, vals)): pairs positionally, stops at the shorter sequence
DictZip(keys, vals) ==
    LET n == Min(Len(keys), Len(vals))
    IN  [ k \in { keys[i] : i \in 1..n } |->
            vals[CHOOSE i \in 1..n : keys[i] = k /\ \A j \in 1..n : keys[j] = k => j <= i] ]

(***************************************************************************)
(* float(x) on a form value.  A decimal string parses to its value (in     *)
(* tenths); on any other string float() raises ValueError.                 *)
(***************************************************************************)
FloatTable ==
    ("5.1" :> 51) @@ ("3.5" :> 35) @@ ("1.4" :> 14) @@ ("0.2" :> 2) @@ ("6.0" :> 60)

IsFloat(s) == s \in DOMAIN FloatTable

ToFloat(s) == FloatTable[s]

(***************************************************************************)
(* model.py                                                                *)
(***************************************************************************)
\* make_data(): the frame of the dataset, target index replaced by its name.
\* A row of the frame is a mapping from column name to value.
make_data ==
    [ i \in DOMAIN dataset_data |->
        DictZip(feature_names \o <<"target">>,
                dataset_data[i] \o << target_names[dataset_target[i] + 1] >>) ]

\* df[cols].values
Values(df, cols) ==
    [ i \in DOMAIN df |-> [ j \in DOMAIN cols |-> df[i][cols[j]] ] ]

\* df['target'].values
TargetValues(df) == [ i \in DOMAIN df |-> df[i]["target"] ]

\* DecisionTreeClassifier.fit(X, y): the tree is a function of X and y alone
FitModel(X, y) == [ X |-> X, y |-> y ]

\* pickle.dump(model, file) into a file opened with 'wb', and pickle.load(file)
Pickle(model) == << model >>
Loadable(file) == Len(file) = 1
Unpickle(file) == file[1]

\* model.py __main__: the classifier written to saved_model.pkl
Bootstrap == FitModel(Values(make_data, feature_names), TargetValues(make_data))

(***************************************************************************)
(* DecisionTreeClassifier.predict on one row.                              *)
(* classes_ is the sorted set of labels in y.  A fully grown tree puts a   *)
(* row that occurs in X into the leaf of its identical rows, and predicts  *)
(* the leaf's most frequent label, the first in classes_ on a tie.  A row  *)
(* that does not occur in X falls into some leaf: the label is one of the  *)
(* labels in y, which one depends on the splits chosen.                    *)
(***************************************************************************)
ClassIndex(lbl) == CHOOSE k \in DOMAIN target_names : target_names[k] = lbl

Classes(model) == Range(model.y)

Votes(model, row, lbl) ==
    Cardinality({ i \in DOMAIN model.X : model.X[i] = row /\ model.y[i] = lbl })

PredictSet(model, row) ==
    IF \E i \in DOMAIN model.X : model.X[i] = row
    THEN { lbl \in Classes(model) :
             \A other \in Classes(model) :
                \/ Votes(model, row, other) < Votes(model, row, lbl)
                \/ /\ Votes(model, row, other) = Votes(model, row, lbl)
                   /\ ClassIndex(lbl) <= ClassIndex(other) }
    ELSE Classes(model)

\* n_features_in_: predict raises ValueError on a row of another width
NFeatures(model) == Len(model.X[1])

(***************************************************************************)
(* Form submissions (request.form.values()).                               *)
(***************************************************************************)
\* the first row of the reference dataset
FormSeen == << "5.1", "3.5", "1.4", "0.2" >>
\* a row that is not in the reference dataset
FormUnseen == << "6.0", "3.5", "1.4", "0.2" >>
\* a non-numeric field
FormBadValue == << "5.1", "abc", "1.4", "0.2" >>
\* a missing field
FormMissing == << "5.1", "3.5", "1.4" >>

Forms == { FormSeen, FormUnseen, FormBadValue, FormMissing }

\* four fields, all numeric
WellFormed(f) == Len(f) = Len(feature_names) /\ \A i \in DOMAIN f : IsFloat(f[i])

(***************************************************************************)
(* State.                                                                  *)
(***************************************************************************)
VARIABLES
    collection,   \* db['iris_inference']: the documents, in insertion order
    clf,          \* the classifier object of the process (app.py:36)
    saved_model,  \* content of saved_model.pkl
    mtime,        \* number of times saved_model.pkl was opened for writing
    pc,           \* per thread: where its predict() call stands
    form,         \* per thread: request.form.values()
    features,     \* per thread: local of predict()
    y_pred,       \* per thread: local of predict()
    all_records,  \* per thread: local of finetune_model()
    raised,       \* per thread: the step whose exception ends the request
    reqNo,        \* number of POST /predict requests received since first start
    rejected,     \* number of malformed submissions received
    failures,     \* number of database / file system failures so far
    own,          \* per thread: the record count its insert_one produced
    written,      \* the record counts whose refit was written to the file
    entry         \* one-at-a-time runs: what the request in hand found on entry

vars == << collection, clf, saved_model, mtime, pc, form, features, y_pred,
           all_records, raised, reqNo, rejected, failures, own, written, entry >>

shared == << collection, clf, saved_model, mtime >>
locals == << form, features, y_pred, all_records, raised >>
counters == << reqNo, rejected, failures >>

\* the rows of the collection that no row of the reference dataset equals
Novel == { i \in DOMAIN collection :
             \A k \in DOMAIN dataset_data :
                [ j \in DOMAIN feature_names |-> collection[i][feature_names[j]] ]
                    # dataset_data[k] }

\* the submissions the bounds admit in the current state
Admitted(f) ==
    IF ~ WellFormed(f)
    THEN rejected < MaxRejected
    ELSE IF \E k \in DOMAIN dataset_data :
               dataset_data[k] = [ i \in DOMAIN f |-> ToFloat(f[i]) ]
         THEN TRUE
         ELSE Cardinality(Novel) < MaxNovel

\* model.py has run once, the collection does not exist yet, app.py has
\* loaded saved_model.pkl (app.py:35-36) and no request has arrived.
Init ==
    /\ collection = << >>
    /\ saved_model = Pickle(Bootstrap)
    /\ clf = Unpickle(saved_model)
    /\ mtime = 0
    /\ pc = [ t \in Threads |-> "idle" ]
    /\ form = [ t \in Threads |-> << >> ]
    /\ features = [ t \in Threads |-> << >> ]
    /\ y_pred = [ t \in Threads |-> None ]
    /\ all_records = [ t \in Threads |-> << >> ]
    /\ raised = [ t \in Threads |-> None ]
    /\ reqNo = 0
    /\ rejected = 0
    /\ failures = 0
    /\ own = [ t \in Threads |-> 0 ]
    /\ written = { }
    /\ entry = [ n |-> 0, collection |-> << >>, mtime |-> 0, clf |-> clf ]

(***************************************************************************)
(* predict(), app.py:46-58, one action per statement that reads or writes  *)
(* the collection, the classifier or the model file.  home(), app.py:42-44,*)
(* renders a static page and touches none of the state: it has no action.  *)
(* clf.fit and clf.predict are each taken as one step, and a write of the  *)
(* model file as one step after the truncating open: what a later write    *)
(* leaves in the file is that write's pickle.                              *)
(***************************************************************************)
\* the development server hands a POST /predict to thread t
Receive(t, f) ==
    /\ pc[t] = "idle"
    /\ Admitted(f)
    /\ pc' = [pc EXCEPT ![t] = "parse"]
    /\ form' = [form EXCEPT ![t] = f]
    /\ reqNo' = reqNo + 1
    /\ rejected' = IF WellFormed(f) THEN rejected ELSE rejected + 1
    /\ UNCHANGED << shared, features, y_pred, all_records, raised, failures, own, written >>

\* Faulty variant of Parse: a field that does not parse silently becomes 0.0.
\* C5's property tells it from the code.
ParseLenient(t) ==
    /\ pc[t] = "parse"
    /\ features' = [features EXCEPT ![t] =
                       [ i \in DOMAIN form[t] |->
                           IF IsFloat(form[t][i]) THEN ToFloat(form[t][i]) ELSE 0 ]]
    /\ pc' = [pc EXCEPT ![t] = "predict"]
    /\ UNCHANGED << shared, form, y_pred, all_records, raised, counters, own, written, entry >>

\* app.py:48   features = [float(x) for x in request.form.values()]
Parse(t) ==
    /\ pc[t] = "parse"
    /\ IF \A i \in DOMAIN form[t] : IsFloat(form[t][i])
       THEN /\ features' = [features EXCEPT ![t] =
                               [ i \in DOMAIN form[t] |-> ToFloat(form[t][i]) ]]
            /\ pc' = [pc EXCEPT ![t] = "predict"]
            /\ UNCHANGED raised
       ELSE /\ pc' = [pc EXCEPT ![t] = "error"]
            /\ raised' = [raised EXCEPT ![t] = "parse"]
            /\ UNCHANGED features
    /\ UNCHANGED << shared, form, y_pred, all_records, counters, own, written, entry >>

\* app.py:49-50   y_pred = clf.predict(np.array(features).reshape(1, -1))[0]
Predict(t) ==
    /\ pc[t] = "predict"
    /\ IF Len(features[t]) = NFeatures(clf)
       THEN /\ \E lbl \in PredictSet(clf, features[t]) :
                  y_pred' = [y_pred EXCEPT ![t] = lbl]
            /\ pc' = [pc EXCEPT ![t] = "insert"]
            /\ UNCHANGED raised
       ELSE /\ pc' = [pc EXCEPT ![t] = "error"]
            /\ raised' = [raised EXCEPT ![t] = "predict"]
            /\ UNCHANGED y_pred
    /\ UNCHANGED << shared, form, features, all_records, counters, own, written, entry >>

\* Faulty variant of Document: the values are zipped in reverse order.
\* C2's property tells it from the code.
DocumentReversed(feats, lbl) ==
    DictZip(feature_names \o <<"target">>,
            [ i \in DOMAIN feats |-> feats[Len(feats) + 1 - i] ] \o <<lbl>>)

\* app.py:53   data = dict(zip(feature_names + ['target'], features + [y_pred]))
Document(feats, lbl) == DictZip(feature_names \o <<"target">>, feats \o <<lbl>>)

\* app.py:54   collection.insert_one(data)
Insert(t) ==
    /\ pc[t] = "insert"
    /\ collection' = Append(collection, Document(features[t], y_pred[t]))
    /\ own' = [own EXCEPT ![t] = Len(collection) + 1]
    /\ pc' = [pc EXCEPT ![t] = "find"]
    /\ UNCHANGED << clf, saved_model, mtime, locals, counters, written, entry >>

\* Faulty variant of Raise: the failing request takes its document back out.
\* C9's property tells it from the code.
RaiseRollback(t, step) ==
    /\ failures < MaxFailures
    /\ failures' = failures + 1
    /\ collection' = entry.collection
    /\ pc' = [pc EXCEPT ![t] = "error"]
    /\ raised' = [raised EXCEPT ![t] = step]
    /\ UNCHANGED << clf, mtime, form, features, y_pred, all_records,
                    reqNo, rejected, own, written, entry >>

\* the exception of a failed statement leaves predict(): nothing is undone
Raise(t, step) ==
    /\ failures < MaxFailures
    /\ failures' = failures + 1
    /\ pc' = [pc EXCEPT ![t] = "error"]
    /\ raised' = [raised EXCEPT ![t] = step]
    /\ UNCHANGED << collection, clf, mtime, form, features, y_pred, all_records,
                    reqNo, rejected, own, written, entry >>

\* app.py:54   insert_one raises (the store is unreachable)
InsertFail(t) ==
    /\ pc[t] = "insert"
    /\ Raise(t, "insert")
    /\ UNCHANGED saved_model

\* Faulty variant of ShouldRefit: the test is one document early.
\* C1's property tells it from the code.
ShouldRefitEarly(records) == (Len(records) + 1) % RefitEvery = 0

\* app.py:11   if len(all_records) % 5 == 0
ShouldRefit(records) == Len(records) % RefitEvery = 0

\* app.py:9-11   all_records = list(collection.find()) and the test on its length
Find(t) ==
    /\ pc[t] = "find"
    /\ all_records' = [all_records EXCEPT ![t] = collection]
    /\ pc' = [pc EXCEPT ![t] = IF ShouldRefit(collection) THEN "fit" ELSE "render"]
    /\ UNCHANGED << shared, form, features, y_pred, raised, counters, own,
                    written, entry >>

\* app.py:9   find raises (the store is unreachable)
FindFail(t) ==
    /\ pc[t] = "find"
    /\ Raise(t, "find")
    /\ UNCHANGED saved_model

\* Faulty variant of TrainX: only the documents since the previous refit.
\* C4's property tells it from the code.
TrainXRecent(records) ==
    Values(SubSeq(records, Len(records) - RefitEvery + 1, Len(records)), feature_names)

\* Faulty variant of TrainY: the target is read from a feature column.
\* C6's property tells it from the code.
TrainYWrongColumn(records) ==
    [ i \in DOMAIN records |-> ToString(records[i][feature_names[1]]) ]

\* app.py:12-14   the training matrix and target vector of the refit
TrainX(records) == Values(records, feature_names)
TrainY(records) == TargetValues(records)

\* Faulty variant of Fit: the new rows are added to those the classifier was
\* fit on before.  C3's property tells it from the code.
FitKeepingPrevious(t) ==
    /\ pc[t] = "fit"
    /\ clf' = FitModel(clf.X \o TrainX(all_records[t]), clf.y \o TrainY(all_records[t]))
    /\ pc' = [pc EXCEPT ![t] = "open"]
    /\ UNCHANGED << collection, saved_model, mtime, locals, counters, own, written, entry >>

\* app.py:12-15   clf.fit(X, y) on the process-wide classifier
Fit(t) ==
    /\ pc[t] = "fit"
    /\ clf' = FitModel(TrainX(all_records[t]), TrainY(all_records[t]))
    /\ pc' = [pc EXCEPT ![t] = "open"]
    /\ UNCHANGED << collection, saved_model, mtime, locals, counters, own, written, entry >>

\* Faulty variant of Open: the file is opened only while no other thread has
\* it open, as under a file lock.  C8's property tells it from the code.
OpenExclusive(t) ==
    /\ pc[t] = "open"
    /\ \A u \in Threads \ { t } : pc[u] # "dump"
    /\ saved_model' = Partial
    /\ mtime' = mtime + 1
    /\ pc' = [pc EXCEPT ![t] = "dump"]
    /\ UNCHANGED << collection, clf, locals, counters, own, written, entry >>

\* app.py:18   open('saved_model.pkl', 'wb') truncates the file
Open(t) ==
    /\ pc[t] = "open"
    /\ saved_model' = Partial
    /\ mtime' = mtime + 1
    /\ pc' = [pc EXCEPT ![t] = "dump"]
    /\ UNCHANGED << collection, clf, locals, counters, own, written, entry >>

\* app.py:18   open raises (the file cannot be opened): the file is as it was
OpenFail(t) ==
    /\ pc[t] = "open"
    /\ Raise(t, "open")
    /\ UNCHANGED saved_model

\* Faulty variant of Dump: the classifier pickled is the one the request
\* found on entry, not the refit one.  C10's property tells it from the code.
DumpStale(t) ==
    /\ pc[t] = "dump"
    /\ saved_model' = Pickle(entry.clf)
    /\ written' = written \cup { Len(all_records[t]) }
    /\ pc' = [pc EXCEPT ![t] = "render"]
    /\ UNCHANGED << collection, clf, mtime, locals, counters, own, entry >>

\* app.py:19   pickle.dump(clf, file), and the file is closed
Dump(t) ==
    /\ pc[t] = "dump"
    /\ saved_model' = Pickle(clf)
    /\ written' = written \cup { Len(all_records[t]) }
    /\ pc' = [pc EXCEPT ![t] = "render"]
    /\ UNCHANGED << collection, clf, mtime, locals, counters, own, entry >>

\* app.py:19   the write raises part way: the truncated file stays
DumpFail(t) ==
    /\ pc[t] = "dump"
    /\ Raise(t, "dump")
    /\ saved_model' = Partial

\* the locals of a finished call
Return(t) ==
    /\ pc' = [pc EXCEPT ![t] = "idle"]
    /\ form' = [form EXCEPT ![t] = << >>]
    /\ features' = [features EXCEPT ![t] = << >>]
    /\ y_pred' = [y_pred EXCEPT ![t] = None]
    /\ all_records' = [all_records EXCEPT ![t] = << >>]
    /\ raised' = [raised EXCEPT ![t] = None]
    /\ own' = [own EXCEPT ![t] = 0]
    /\ UNCHANGED << shared, counters, written, entry >>

\* app.py:58   the result page, 'Predicted class: {y_pred}', status 200
Render(t) ==
    /\ pc[t] = "render"
    /\ Return(t)

\* the uncaught exception becomes the server's error response, status 500
ServerError(t) ==
    /\ pc[t] = "error"
    /\ Return(t)

\* app.py:35-36   the process is started again between requests and loads
\* saved_model.pkl; a file that does not unpickle aborts the start
Restart ==
    /\ \A t \in Threads : pc[t] = "idle"
    /\ Loadable(saved_model)
    /\ clf' = Unpickle(saved_model)
    /\ UNCHANGED << collection, saved_model, mtime, pc, locals, counters, own, written, entry >>

(***************************************************************************)
(* Specifications.                                                         *)
(***************************************************************************)
Step(t) ==
    \/ Parse(t)
    \/ Predict(t)
    \/ Insert(t)
    \/ InsertFail(t)
    \/ Find(t)
    \/ FindFail(t)
    \/ Fit(t)
    \/ Open(t)
    \/ OpenFail(t)
    \/ Dump(t)
    \/ DumpFail(t)
    \/ Render(t)
    \/ ServerError(t)

\* the submissions of the runs with concurrent requests: the label of a row
\* outside the reference dataset plays no part in how the handlers interleave
ThreadedForms == Forms \ { FormUnseen }

\* requests handled concurrently, one thread each (the threaded server)
Accept ==
    \E t \in Threads, f \in ThreadedForms :
        /\ reqNo < MaxRequests
        /\ Receive(t, f)
        /\ UNCHANGED entry
Run == \E t \in Threads : Step(t)
Next == Accept \/ Run \/ Restart

Spec == Init /\ [][Next]_vars

\* requests handled one at a time; entry records what each request found
AcceptSeq ==
    \E f \in Forms :
        /\ reqNo < MaxRequests
        /\ Receive(T1, f)
        /\ entry' = [ n |-> reqNo + 1, collection |-> collection,
                      mtime |-> mtime, clf |-> clf ]
RunSeq == Step(T1)
NextSeq == AcceptSeq \/ RunSeq \/ Restart

SpecSeq == Init /\ [][NextSeq]_vars


(***************************************************************************)
(* Vocabulary of the properties.                                           *)
(***************************************************************************)
\* no request is being handled
Quiescent == \A t \in Threads : pc[t] = "idle"

\* thread t has finished its work and is about to send its response
Responding(t) == pc[t] \in { "render", "error" }

\* the artifact was opened for writing since the request in hand arrived
Overwritten == mtime # entry.mtime

\* the three class names the Bootstrapper's dataset carries
LabelSet == { "setosa", "versicolor", "virginica" }

\* the rows and the labels of a list of documents, column by column
RowsOf(records) ==
    [ i \in DOMAIN records |->
        << records[i]["sepal length (cm)"], records[i]["sepal width (cm)"],
           records[i]["petal length (cm)"], records[i]["petal width (cm)"] >> ]
LabelsOf(records) == [ i \in DOMAIN records |-> records[i]["target"] ]

(***************************************************************************)
(* C1                                                                      *)
(***************************************************************************)
\* C1 as stated: with requests handled one at a time and no database or file
\* failure, the artifact is overwritten during request number N exactly
\* when N is a multiple of 5.
C1_EveryFifthRequest ==
    (failures = 0 /\ Responding(T1)) =>
        (Overwritten <=> entry.n % 5 = 0)

\* C1 amended: with requests handled one at a time and no database or file
\* failure, the artifact is overwritten during a request exactly when that
\* request inserted a record and the insert brought the record count to a
\* multiple of 5; a request rejected for a non-numeric or missing field
\* takes a request number but inserts nothing and overwrites nothing.
C1_EveryFifthRecord ==
    (failures = 0 /\ Responding(T1)) =>
        (Overwritten <=>
            /\ Len(collection) = Len(entry.collection) + 1
            /\ Len(collection) % 5 = 0)

\* C1 witness: a request whose number is no multiple of 5 overwrote the
\* artifact, because a rejected request came before it.
C1_Witness ==
    /\ failures = 0
    /\ pc[T1] = "render"
    /\ Overwritten
    /\ entry.n % 5 # 0

(***************************************************************************)
(* C2                                                                      *)
(***************************************************************************)
\* C2: a successful request, handled alone, leaves the collection as it
\* found it plus exactly one document at the end, which holds the four
\* submitted values under the feature names, in order, and under 'target'
\* the label the response carries.
C2_InsertsExactlyOne ==
    pc[T1] = "render" =>
        /\ Len(collection) = Len(entry.collection) + 1
        /\ SubSeq(collection, 1, Len(entry.collection)) = entry.collection
        /\ LET doc == collection[Len(collection)]
           IN  /\ DOMAIN doc = Range(feature_names) \cup { "target" }
               /\ \A i \in 1..4 : doc[feature_names[i]] = ToFloat(form[T1][i])
               /\ doc["target"] = y_pred[T1]

\* C2 witness: a successful request appended to a collection that already
\* held documents, with a label other than the first class.
C2_Witness ==
    /\ pc[T1] = "render"
    /\ Len(entry.collection) >= 2
    /\ y_pred[T1] = "virginica"
    /\ form[T1] = FormUnseen

(***************************************************************************)
(* C3                                                                      *)
(***************************************************************************)
\* the request that inserted the fifth document is about to respond
FifthDone == failures = 0 /\ pc[T1] = "render" /\ Len(collection) = 5

\* C3 as stated: the refit of the fifth request fits the classifier on the
\* original training set plus the five accumulated documents.
C3_RefitKeepsOriginal ==
    FifthDone =>
        /\ clf.X = RowsOf(make_data) \o RowsOf(collection)
        /\ clf.y = LabelsOf(make_data) \o LabelsOf(collection)

\* C3 amended: while fewer than five documents are stored the artifact is
\* the Bootstrapper's, never opened for writing; the refit of the request
\* that inserts the fifth document fits the classifier on the five
\* accumulated documents alone (the original training set is not part of
\* it), and the artifact then unpickles to that classifier.
C3_RefitOnRecordsOnly ==
    /\ (failures = 0 /\ Len(collection) < 5) =>
            /\ mtime = 0
            /\ saved_model = << Bootstrap >>
    /\ FifthDone =>
            /\ entry.mtime = 0
            /\ mtime = 1
            /\ clf.X = RowsOf(collection)
            /\ clf.y = LabelsOf(collection)
            /\ Len(clf.X) = 5
            /\ Len(saved_model) = 1
            /\ saved_model[1] = clf

\* C3 witness: the fifth document's request has refit and written the model,
\* and the model no longer knows a class of the original training set.
C3_Witness ==
    /\ FifthDone
    /\ mtime = 1
    /\ Classes(clf) # LabelSet

(***************************************************************************)
(* C4                                                                      *)
(***************************************************************************)
\* C4: in every invocation of finetune_model, under any interleaving, the
\* list read is the whole collection; the invocation goes on to refit
\* exactly when the length of that list is a multiple of 5 and otherwise
\* returns leaving classifier and artifact alone; a refit replaces the
\* classifier by one fit on exactly the rows and labels of the list read,
\* and only a thread that refit on a multiple of 5 opens the artifact.
C4_RefitIffMultipleOfFive ==
    [][ \A t \in Threads :
          /\ (pc[t] = "find" /\ pc'[t] \in { "fit", "render" }) =>
                /\ all_records'[t] = collection
                /\ (pc'[t] = "fit") <=> (Len(collection) % 5 = 0)
                /\ << clf, saved_model, mtime >>' = << clf, saved_model, mtime >>
          /\ (pc[t] = "fit" /\ pc'[t] = "open") =>
                /\ Len(all_records[t]) % 5 = 0
                /\ clf'.X = RowsOf(all_records[t])
                /\ clf'.y = LabelsOf(all_records[t])
          /\ (pc[t] = "open" /\ pc'[t] = "dump") =>
                /\ Len(all_records[t]) % 5 = 0
                /\ mtime' = mtime + 1
          /\ (pc[t] = "dump" /\ pc'[t] = "render") =>
                /\ Len(all_records[t]) % 5 = 0
                /\ saved_model' = << clf >>
          /\ (pc[t] = pc'[t] /\ (\A u \in Threads : pc[u] \notin { "fit", "open", "dump" })) =>
                /\ mtime' = mtime
                /\ saved_model' = saved_model
                /\ (clf' # clf => Quiescent)
      ]_vars

\* C4 witness: the second refit is in hand, on all ten documents, the five
\* of the first refit included.
C4_Witness ==
    \E t \in Threads :
        /\ pc[t] = "open"
        /\ Len(all_records[t]) = 10
        /\ 5 \in written
        /\ Len(clf.X) = 10

(***************************************************************************)
(* C5                                                                      *)
(***************************************************************************)
\* C5: a request with a non-numeric or a missing field, handled alone, only
\* ever parses, predicts or fails: it gets no label, inserts nothing, never
\* enters the Refit Trigger, and collection, classifier and artifact stay
\* as the request found them.
C5_MalformedHasNoEffect ==
    (pc[T1] # "idle" /\ ~ WellFormed(form[T1])) =>
        /\ pc[T1] \in { "parse", "predict", "error" }
        /\ y_pred[T1] = None
        /\ all_records[T1] = << >>
        /\ own[T1] = 0
        /\ collection = entry.collection
        /\ clf = entry.clf
        /\ mtime = entry.mtime

\* C5 witness: a submission with a missing field has failed at the point
\* where a well-formed one would have inserted the fifth document.
C5_Witness ==
    /\ pc[T1] = "error"
    /\ form[T1] = FormMissing
    /\ raised[T1] = "predict"
    /\ Len(collection) = 4

(***************************************************************************)
(* C6                                                                      *)
(***************************************************************************)
\* C6: every predicted label and the label of every stored document is one
\* of the three class names, before and after any number of refits.
C6_LabelsStayInSet ==
    /\ \A t \in Threads : y_pred[t] # None => y_pred[t] \in LabelSet
    /\ \A i \in DOMAIN collection : collection[i]["target"] \in LabelSet
    /\ Classes(clf) \subseteq LabelSet

\* C6 witness: after two refits, a prediction by the refit classifier for a
\* row that is not in the reference dataset.
C6_Witness ==
    /\ written = { 5, 10 }
    /\ pc[T1] = "render"
    /\ form[T1] = FormUnseen
    /\ y_pred[T1] = "versicolor"
    /\ Classes(clf) = { "setosa", "versicolor" }

(***************************************************************************)
(* C7                                                                      *)
(***************************************************************************)
\* C7 as stated: under every interleaving, once all requests are done and
\* none met a database or file failure, every positive multiple of 5 the
\* record count went through has been observed by a Refit Trigger that
\* refit and overwrote the artifact.
C7_EveryMultipleRefits ==
    (Quiescent /\ failures = 0) =>
        \A k \in 1..Len(collection) : k % 5 = 0 => k \in written

\* C7, what the code does guarantee: a request whose insert brings the record
\* count to a positive multiple of 5 refits and overwrites the artifact for
\* that count when its own Refit Trigger reads the collection before any
\* other request inserts; when another insert lands in between, the trigger
\* reads the larger count and the multiple of 5 can pass without any refit.
C7_RefitsWhenReadOwnCount ==
    \A t \in Threads :
        (pc[t] = "render" /\ own[t] % 5 = 0) =>
            /\ Len(all_records[t]) >= own[t]
            /\ Len(all_records[t]) = own[t] => own[t] \in written

\* C7, a state of that guarantee: with another request in flight, a request that read the count
\* its own insert produced has refit and written for it.
C7_Witness ==
    \E t, u \in Threads :
        /\ t # u
        /\ pc[t] = "render"
        /\ pc[u] \notin { "idle", "parse", "predict", "error" }
        /\ own[t] = 5
        /\ Len(all_records[t]) = 5
        /\ 5 \in written

(***************************************************************************)
(* C8                                                                      *)
(***************************************************************************)
\* C8: no step of a refit waits for or excludes another thread: a thread
\* that is to fit, to open the file or to write it can always do so,
\* whatever the other threads are doing, and what a write leaves in the file
\* is the process-wide classifier as that write found it.
C8_NothingOrdersTheWrites ==
    /\ [](\A t \in Threads :
            /\ pc[t] = "fit" => ENABLED Fit(t)
            /\ pc[t] = "open" => ENABLED Open(t)
            /\ pc[t] = "dump" => ENABLED Dump(t))
    /\ [][ \A t \in Threads :
             (pc[t] = "dump" /\ pc'[t] = "render") => saved_model' = << clf >> ]_vars

\* C8 witness: two requests are both about to write the model file, each
\* after reading a record count that is a multiple of 5, the counts differ,
\* and the file is already open and truncated.
C8_Witness ==
    \E t, u \in Threads :
        /\ t # u
        /\ pc[t] = "dump"
        /\ pc[u] = "dump"
        /\ Len(all_records[t]) = 5
        /\ Len(all_records[u]) = 10
        /\ saved_model = << >>

(***************************************************************************)
(* C9                                                                      *)
(***************************************************************************)
\* C9: a request, handled alone, that fails in the Refit Trigger (reading
\* the collection, opening or writing the file) ends in the error response
\* with its document still stored, the collection being what the request
\* found plus that one document; and every list a Refit Trigger reads is
\* the whole collection, that document included.
C9_InsertSurvivesRefitFailure ==
    /\ (pc[T1] = "error" /\ raised[T1] \in { "find", "open", "dump" }) =>
            /\ Len(collection) = Len(entry.collection) + 1
            /\ SubSeq(collection, 1, Len(entry.collection)) = entry.collection
            /\ collection[Len(collection)]["target"] = y_pred[T1]
    /\ pc[T1] \in { "fit", "open", "dump", "render" } => all_records[T1] = collection

\* C9 witness: the refit of the fifth document failed before the file was
\* opened, and a later request refits on ten documents, the fifth included.
C9_Witness ==
    /\ failures = 1
    /\ reqNo = 10
    /\ mtime = 0
    /\ pc[T1] = "fit"
    /\ Len(all_records[T1]) = 10

(***************************************************************************)
(* C10                                                                     *)
(***************************************************************************)
\* C10: with requests handled one at a time and no database or file failure,
\* whenever no request is in hand and whenever a request is about to be
\* predicted, the model file unpickles to the classifier held in memory.
C10_MemoryMatchesFile ==
    (failures = 0 /\ pc[T1] \in { "idle", "parse", "predict" }) =>
        /\ Len(saved_model) = 1
        /\ saved_model[1] = clf

\* C10 witness: the request after the first refit is about to be predicted
\* by the refit classifier, which is also what the file holds.
C10_Witness ==
    /\ failures = 0
    /\ pc[T1] = "predict"
    /\ written = { 5 }
    /\ Len(clf.X) = 5
    /\ saved_model = << clf >>

=============================================================================
